---- MODULE Spec2Model ----
(***************************************************************************)
(* GoManage API gateway (src/src/main.py): the process-wide session, the   *)
(* session_required wrapper, _authenticate, _request with its single       *)
(* re-authenticate-and-retry, _load_paginated and the lazily filled        *)
(* customer / product caches.                                              *)
(*                                                                         *)
(* A worker is one thread serving one operation at a time.  Every network  *)
(* call is split in a send step and a receive step; the upstream's answer  *)
(* (status, exception, cookie header, page body) is chosen by the          *)
(* environment in the receive step.  Time is a counter that may advance    *)
(* between any two steps.                                                  *)
(***************************************************************************)
EXTENDS Integers, Sequences, FiniteSets, TLC

(* ---- bounds ----------------------------------------------------------- *)
\* Config.CACHE_TTL (7200 s, main.py:42) scaled down to clock ticks
CACHE_TTL == 1
\* page_size (500, main.py:142) scaled down
page_size == 2
\* records the upstream holds, customers and products together; the larger
\* catalogue takes three pages at page_size 2
MaxTotal == 5
\* the clock stops advancing here
MaxTime == 2
\* operations started over a run
MaxOps == 2
\* _load_paginated is followed up to this page
MaxPages == 4
\* the page argument of GET /api/customers is drawn from 1..MaxPage
MaxPage == 3
\* the per_page argument of GET /api/customers is drawn from 1..MaxPerPage
MaxPerPage == 3

Workers == {1, 2}
Kinds == {"customers", "products"}
Ops == {"request", "ensure_customers", "ensure_products"}

\* the value of None for _session_id and _session_expires
None == -1

VARIABLES
    now,                \* datetime.utcnow(), in ticks
    session_id,         \* _session_id: None or a token
    session_expires,    \* _session_expires: None or a tick
    customers_cache,    \* _customers_cache
    products_cache,     \* _products_cache
    total,              \* upstream: kind -> number of records it holds
    nextToken,          \* upstream: the next JSESSIONID it issues
    started,            \* operations started so far
    pc,                 \* worker -> position in the code
    op,                 \* worker -> operation being served
    result,             \* worker -> outcome of its latest operation
    ret,                \* worker -> caller of the running _authenticate
    attempt,            \* worker -> 1: the send of line 125, 2: of line 131
    cookie,             \* worker -> token in headers["Cookie"]
    resp,               \* worker -> the upstream's answer, not yet handled
    page,               \* worker -> _load_paginated's page
    output,             \* worker -> _load_paginated's output
    call,               \* worker -> history of its current/latest _request
    load,               \* worker -> history of its current/latest _load_paginated
    pair,               \* kind -> history of consecutive ensure-loaded calls
    honest,             \* upstream: its list pages are well-formed
    concurrent,         \* the workers serve operations at the same time
    rejected,           \* history: the stored token has been answered 401
    handler,            \* worker -> the route handler it runs and its request
    reply               \* worker -> the HTTP response of its handler

sessVars == <<session_id, session_expires>>
cacheVars == <<customers_cache, products_cache>>
envVars == <<total, nextToken>>
loaderVars == <<page, output>>
reqVars == <<ret, attempt, cookie, resp>>
modeVars == <<honest, concurrent>>
handlerVars == <<handler, reply>>
vars == <<now, session_id, session_expires, customers_cache, products_cache,
          total, nextToken, started, pc, op, result, ret, attempt, cookie,
          resp, page, output, call, load, pair, honest, concurrent, rejected,
          handler, reply>>

(* ---- pure helpers ----------------------------------------------------- *)
Min(a, b) == IF a <= b THEN a ELSE b
Max(a, b) == IF a >= b THEN a ELSE b
CeilDiv(a, b) == (a + b - 1) \div b

\* _is_session_valid, over explicit arguments
SessionValidAt(id, expires, t) == id # None /\ expires # None /\ expires > t

\* _is_session_valid with the expiry comparison turned round
IsSessionValidInverted == session_id # None /\ session_expires # None /\ session_expires < now

\* _is_session_valid without the expiry test
IsSessionValidIgnoresExpiry == session_id # None

\* _is_session_valid
IsSessionValid == SessionValidAt(session_id, session_expires, now)

\* Response.raise_for_status raises for the 4xx and 5xx statuses
RaiseForStatus(status) == status >= 400 /\ status < 600

(* ---- the upstream ----------------------------------------------------- *)
\* statuses the login endpoint answers with (the post does not follow
\* redirects, so the redirect of a form login arrives as it is)
AuthStatuses == {302, 500}
\* final statuses of a substantive request (redirects are followed by requests)
ReqStatuses == {200, 401, 500}

\* one ";"-separated part of the Set-Cookie header: its name, whether it has
\* an "=", and the text after the first "="
Part(name, eq, val) == [name |-> name, eq |-> eq, val |-> val]

\* Set-Cookie headers the login endpoint may answer with when it issues token t,
\* as the list cookie_header.split(";") yields ("" splits to one empty part)
CookieHeaders(t) ==
    { << Part("", FALSE, None) >>,
      << Part("JSESSIONID", TRUE, t), Part("Path", TRUE, None) >>,
      << Part("Path", TRUE, None), Part("JSESSIONID", TRUE, t) >>,
      << Part("JSESSIONIDSSO", TRUE, t + 100), Part("JSESSIONID", TRUE, t) >>,
      << Part("JSESSIONID", FALSE, None) >>,
      << Part("Path", TRUE, None), Part("HttpOnly", FALSE, None) >> }

\* the records of page pg of a list holding n records, page_size per page
PageEntries(n, pg) ==
    LET first == (pg - 1) * page_size
        len == Min(page_size, Max(0, n - first))
    IN  [i \in 1..len |-> first + i]

\* the JSON body of page pg of the list of kind k
Body(k, pg) == [page_entries |-> PageEntries(total[k], pg), total_entries |-> total[k]]

\* bodies of page pg from an upstream that pages badly: the page is empty or
\* full, the total_entries field is missing (None), 0, or MaxTotal whatever
\* has been delivered
MalformedBodies(pg) ==
    { [page_entries |-> e, total_entries |-> t] :
        e \in {<< >>, PageEntries(MaxTotal, pg)}, t \in {None, 0, MaxTotal} }

\* every record the upstream holds for a list of n records, in upstream order
Catalogue(n) == [i \in 1..n |-> i]

(* ---- _authenticate's cookie parsing (lines 100-108) ------------------- *)
\* part.strip().startswith("JSESSIONID")
StartsWithJSESSIONID(part) == part.name \in {"JSESSIONID", "JSESSIONIDSSO"}

\* index of the first part the for loop stops at, 0 when it runs to its else
FirstSessionPart(header) ==
    IF \E i \in 1..Len(header) : StartsWithJSESSIONID(header[i])
    THEN CHOOSE i \in 1..Len(header) :
            /\ StartsWithJSESSIONID(header[i])
            /\ \A j \in 1..(i - 1) : ~StartsWithJSESSIONID(header[j])
    ELSE 0

\* the token the loop stores, or None when it raises (RuntimeError of line 108,
\* IndexError of part.split("=", 1)[1] on a part without "=")
ParseCookie(header) ==
    LET i == FirstSessionPart(header)
    IN  IF i = 0 THEN None
        ELSE IF header[i].eq THEN header[i].val ELSE None

\* expiry stored with a token, without the time-to-live
SessionExpiryNoTTL(t) == t

\* line 104: datetime.utcnow() + timedelta(seconds=Config.CACHE_TTL)
SessionExpiry(t) == t + CACHE_TTL

(* ---- histories kept for the properties -------------------------------- *)
\* auths/sends: network calls of the _request so far; authsAtSend: auths when
\* line 125 sent; invalid: the session check found the session absent or
\* expired; first/last: status of the first/latest response (0: none);
\* reauth: the _authenticate of line 129; outcome: how the _request ended
NoCall == [auths |-> 0, sends |-> 0, authsAtSend |-> None, invalid |-> FALSE,
           first |-> 0, last |-> 0, reauth |-> "none", outcome |-> "none"]

\* name: the route handler; phase: the calls of its body done so far; page,
\* per_page, search: the arguments of GET /api/customers; question: whether
\* the body of POST /api/chat/mcp has a non-empty question
NoHandler == [name |-> "none", phase |-> 0, page |-> 0, per_page |-> 0,
              search |-> FALSE, question |-> FALSE]

\* status 0: no response yet
NoReply == [status |-> 0, customers |-> << >>, total |-> 0, pages |-> 0]

\* the routes behind @session_required (lines 181-267)
Handlers == {"auth", "get_customers", "analytics_dashboard", "chat_mcp"}

\* worker p serves a route handler
InHandler(p) == handler[p].name # "none"

\* the operations are called directly, not from the body of a handler
Direct == \A p \in Workers : ~InHandler(p)

\* no answer waiting
NoResp == [exc |-> FALSE, status |-> 0, header |-> << >>,
           body |-> [page_entries |-> << >>, total_entries |-> 0]]

\* fetches: the pages requested so far; outcome: how _load_paginated ended;
\* returned: the sequence it returned; first: the body of its first page
NoLoad == [fetches |-> << >>, outcome |-> "none", returned |-> << >>,
           first |-> [page_entries |-> << >>, total_entries |-> 0]]

\* n: consecutive successful ensure-loaded calls counted from one that found
\* the cache empty; loads: paginated loads they ran; first/second: the cache
\* after each
NoPair == [n |-> 0, loads |-> 0, first |-> << >>, second |-> << >>]

KindOf(o) == IF o = "ensure_customers" THEN "customers" ELSE "products"

CacheOf(k) == IF k = "customers" THEN customers_cache ELSE products_cache

\* pair[k] after an ensure-loaded call of kind k that returned with cache c
\* (the history is kept of direct calls only)
PairAfterReturn(k, loaded, c) ==
    IF ~Direct THEN pair[k]
    ELSE IF pair[k].n = 1
    THEN [pair[k] EXCEPT !.n = 2, !.loads = @ + (IF loaded THEN 1 ELSE 0), !.second = c]
    ELSE IF loaded THEN [n |-> 1, loads |-> 1, first |-> c, second |-> << >>]
    ELSE NoPair

\* pair after the operation o of a worker ended in an exception
PairAfterRaise(o) ==
    IF o \in {"request", "none"} \/ ~Direct THEN pair ELSE [pair EXCEPT ![KindOf(o)] = NoPair]

(* ---- initial state ---------------------------------------------------- *)
\* the module's globals after import (lines 62-65), the upstream's data
InitProgram ==
    /\ now \in {0, MaxTime}
    /\ session_id = None
    /\ session_expires = None
    /\ customers_cache = << >>
    /\ products_cache = << >>
    /\ total \in [Kinds -> 0..MaxTotal]
    /\ total["customers"] + total["products"] = MaxTotal
    /\ nextToken = 1
    /\ started \in {0, MaxOps - 1}
    /\ pc = [p \in Workers |-> "idle"]
    /\ op = [p \in Workers |-> "none"]
    /\ result = [p \in Workers |-> "none"]
    /\ ret = [p \in Workers |-> "none"]
    /\ attempt = [p \in Workers |-> 0]
    /\ cookie = [p \in Workers |-> None]
    /\ resp = [p \in Workers |-> NoResp]
    /\ page = [p \in Workers |-> 0]
    /\ output = [p \in Workers |-> << >>]
    /\ call = [p \in Workers |-> NoCall]
    /\ load = [p \in Workers |-> NoLoad]
    /\ pair = [k \in Kinds |-> NoPair]
    /\ rejected = FALSE
    /\ handler = [p \in Workers |-> NoHandler]
    /\ reply = [p \in Workers |-> NoReply]

\* the operations run one after the other against an upstream that pages
\* its lists properly
Init ==
    /\ InitProgram
    /\ now = 0
    /\ started = 0
    /\ honest = TRUE
    /\ concurrent = FALSE

\* one operation against an upstream whose list pages are malformed, in a
\* time too short for the session to expire
InitMalformed ==
    /\ InitProgram
    /\ now = MaxTime
    /\ started = MaxOps - 1
    /\ honest = FALSE
    /\ concurrent = FALSE

(* ---- the clock -------------------------------------------------------- *)
Tick ==
    /\ now < MaxTime
    /\ now' = now + 1
    /\ UNCHANGED <<sessVars, cacheVars, envVars, started, pc, op, result, reqVars, loaderVars, call, load, pair>>
    /\ UNCHANGED <<modeVars, rejected, handlerVars>>

\* what another worker keeps of its operation when a worker starts one: all
\* of it when the workers run at the same time; the histories of a finished
\* operation are dropped when the operations run one after the other
Kept(mine, nothing) == IF concurrent THEN mine ELSE nothing


(* ---- a worker takes up an operation ----------------------------------- *)
\* sequentially, one operation at a time, served by the first worker;
\* concurrently, one operation for each worker, the workers taken in order
Start(p, o) ==
    /\ pc[p] = "idle"
    /\ IF concurrent
       THEN op[p] = "none" /\ \A q \in Workers : q < p => op[q] # "none"
       ELSE \A q \in Workers : pc[q] = "idle" /\ p <= q
    /\ started < MaxOps
    /\ started' = started + 1
    /\ op' = [q \in Workers |-> IF q = p THEN o ELSE Kept(op[q], "none")]
    /\ result' = [q \in Workers |-> IF q = p THEN "none" ELSE Kept(result[q], "none")]
    /\ call' = [q \in Workers |-> IF q = p THEN NoCall ELSE Kept(call[q], NoCall)]
    /\ load' = [q \in Workers |-> IF q = p THEN NoLoad ELSE Kept(load[q], NoLoad)]
    /\ pc' = [pc EXCEPT ![p] = IF o = "request" THEN "req_check" ELSE "ensure"]
    /\ UNCHANGED <<now, sessVars, cacheVars, envVars, reqVars,
                   loaderVars, pair>>
    /\ UNCHANGED <<modeVars, rejected, handlerVars>>

(* ---- a call made by a handler returns to it --------------------------- *)
\* where a call of worker p returns to: the body of its handler, or nowhere
\* when the operation was called directly
ReturnsTo(p) == IF InHandler(p) THEN "h_body" ELSE "idle"

(* ---- _ensure_customers_loaded / _ensure_products_loaded --------------- *)
\* lines 159 / 166 with a filled cache: nothing to do
EnsureSkip(p) ==
    /\ pc[p] = "ensure"
    /\ CacheOf(KindOf(op[p])) # << >>
    /\ pc' = [pc EXCEPT ![p] = ReturnsTo(p)]
    /\ handler' = [handler EXCEPT ![p].phase = IF InHandler(p) THEN @ + 1 ELSE @]
    /\ result' = [result EXCEPT ![p] = "ok"]
    /\ pair' = [pair EXCEPT ![KindOf(op[p])] =
                    PairAfterReturn(KindOf(op[p]), FALSE, CacheOf(KindOf(op[p])))]
    /\ UNCHANGED <<now, sessVars, cacheVars, envVars, started, op, reqVars, loaderVars, call, load>>
    /\ UNCHANGED <<modeVars, rejected, reply>>

\* lines 160-161 / 167-168 without the test of lines 159 / 166: the
\* catalogue is loaded whatever the cache holds
EnsureReload(p) ==
    /\ pc[p] = "ensure"
    /\ page' = [page EXCEPT ![p] = 1]
    /\ output' = [output EXCEPT ![p] = << >>]
    /\ load' = [load EXCEPT ![p] = [NoLoad EXCEPT !.outcome = "running"]]
    /\ pc' = [pc EXCEPT ![p] = "req_check"]
    /\ UNCHANGED <<now, sessVars, cacheVars, envVars, started, op, result, reqVars, call, pair>>
    /\ UNCHANGED <<modeVars, rejected, handlerVars>>

\* lines 159-161 / 166-168 with an empty cache, then lines 142-147:
\* _load_paginated starts at page 1 with an empty output
EnsureLoad(p) ==
    /\ pc[p] = "ensure"
    /\ CacheOf(KindOf(op[p])) = << >>
    /\ page' = [page EXCEPT ![p] = 1]
    /\ output' = [output EXCEPT ![p] = << >>]
    /\ load' = [load EXCEPT ![p] = [NoLoad EXCEPT !.outcome = "running"]]
    /\ pc' = [pc EXCEPT ![p] = "req_check"]
    /\ UNCHANGED <<now, sessVars, cacheVars, envVars, started, op, result, reqVars, call, pair>>
    /\ UNCHANGED <<modeVars, rejected, handlerVars>>

(* ---- session_required around _request (lines 72-75) ------------------- *)
\* the session check: _request's body next when the session is valid,
\* _authenticate first when it is not
SessionCheck(p) ==
    /\ pc[p] = "req_check"
    /\ call' = [call EXCEPT ![p] =
                    [NoCall EXCEPT !.outcome = "running",
                                   !.invalid = ~SessionValidAt(session_id, session_expires, now)]]
    /\ load' = [load EXCEPT ![p] =
                    IF op[p] = "request" THEN @
                    ELSE [@ EXCEPT !.fetches = Append(@, page[p])]]
    /\ IF IsSessionValid
       THEN /\ pc' = [pc EXCEPT ![p] = "req_send"]
            /\ ret' = ret
       ELSE /\ pc' = [pc EXCEPT ![p] = "auth_send"]
            /\ ret' = [ret EXCEPT ![p] = "wrapper"]
    /\ UNCHANGED <<now, sessVars, cacheVars, envVars, started, op, result,
                   attempt, cookie, resp, loaderVars, pair>>
    /\ UNCHANGED <<modeVars, rejected, handlerVars>>

(* ---- an operation ends ------------------------------------------------ *)
\* the frames of worker p are gone: its locals are reset, the outcome is kept.
\* A call that returned goes back to the handler that made it; an exception
\* leaves the handler too (no route catches anything, no errorhandler is
\* registered), and Flask answers 500
Ends(p, outcome) ==
    /\ pc' = [pc EXCEPT ![p] = IF outcome = "ok" THEN ReturnsTo(p) ELSE "idle"]
    /\ result' = [result EXCEPT ![p] = outcome]
    /\ ret' = [ret EXCEPT ![p] = "none"]
    /\ attempt' = [attempt EXCEPT ![p] = 0]
    /\ cookie' = [cookie EXCEPT ![p] = None]
    /\ resp' = [resp EXCEPT ![p] = NoResp]
    /\ page' = [page EXCEPT ![p] = 0]
    /\ output' = [output EXCEPT ![p] = << >>]
    /\ handler' = [handler EXCEPT ![p].phase =
                       IF InHandler(p) /\ outcome = "ok" THEN @ + 1 ELSE @]
    /\ reply' = [reply EXCEPT ![p].status =
                     IF InHandler(p) /\ outcome = "error" THEN 500 ELSE @]

\* an exception handler that keeps what _load_paginated has fetched so far
PropagatesKeepingPartial(p) ==
    /\ Ends(p, "error")
    /\ load' = [load EXCEPT ![p].outcome = IF @ = "running" THEN "raised" ELSE @]
    /\ pair' = PairAfterRaise(op[p])
    /\ customers_cache' = IF op[p] = "ensure_customers"
                          THEN customers_cache \o output[p] ELSE customers_cache
    /\ products_cache' = IF op[p] = "ensure_products"
                         THEN products_cache \o output[p] ELSE products_cache

\* an exception leaves through every caller of worker p up to the top:
\* neither _load_paginated nor the ensure-loaded functions catch anything,
\* so line 161 / 168 never extends the cache
Propagates(p) ==
    /\ Ends(p, "error")
    /\ load' = [load EXCEPT ![p].outcome = IF @ = "running" THEN "raised" ELSE @]
    /\ pair' = PairAfterRaise(op[p])
    /\ UNCHANGED cacheVars

(* ---- _authenticate (lines 84-108) ------------------------------------- *)
\* answers of the login endpoint: no answer (requests raises), a failure
\* status, or a status below 400 with a Set-Cookie header
LoginResponses ==
    { [NoResp EXCEPT !.exc = TRUE] } \cup
    { [NoResp EXCEPT !.status = st, !.header = h] :
        st \in AuthStatuses, h \in CookieHeaders(nextToken) }

\* lines 92-108 raise on the answer r
AuthRaises(r) == r.exc \/ RaiseForStatus(r.status) \/ ParseCookie(r.header) = None

\* line 93: the login post is sent
AuthSend(p) ==
    /\ pc[p] = "auth_send"
    /\ pc' = [pc EXCEPT ![p] = "auth_wait"]
    /\ call' = [call EXCEPT ![p].auths = @ + 1]
    /\ UNCHANGED <<now, sessVars, cacheVars, envVars, started, op, result,
                   reqVars, loaderVars, load, pair>>
    /\ UNCHANGED <<modeVars, rejected, handlerVars>>

\* the login endpoint answers (or the post times out)
LoginAnswer(p) ==
    /\ pc[p] = "auth_wait"
    /\ \E r \in LoginResponses : resp' = [resp EXCEPT ![p] = r]
    /\ pc' = [pc EXCEPT ![p] = "auth_recv"]
    /\ UNCHANGED <<now, sessVars, cacheVars, envVars, started, op, result, ret,
                   attempt, cookie, loaderVars, call, load, pair>>
    /\ UNCHANGED <<modeVars, rejected, handlerVars>>

\* a failed login that also forgets the stored session
AuthRecvFailClears(p) ==
    /\ pc[p] = "auth_recv"
    /\ AuthRaises(resp[p])
    /\ call' = [call EXCEPT ![p].reauth = IF ret[p] = "retry" THEN "failed" ELSE @,
                            ![p].outcome = "raised"]
    /\ session_id' = None
    /\ session_expires' = None
    /\ Propagates(p)
    /\ UNCHANGED <<now, envVars, started, op>>
    /\ UNCHANGED <<modeVars, rejected>>

\* lines 93-97 and 108: the post raised, the status is a failure, or no
\* JSESSIONID was parsed; the session is left as it is
AuthRecvFail(p) ==
    /\ pc[p] = "auth_recv"
    /\ AuthRaises(resp[p])
    /\ call' = [call EXCEPT ![p].reauth = IF ret[p] = "retry" THEN "failed" ELSE @,
                            ![p].outcome = "raised"]
    /\ Propagates(p)
    /\ UNCHANGED <<now, sessVars, envVars, started, op>>
    /\ UNCHANGED <<modeVars, rejected>>

\* lines 100-106: the token is stored with its expiry; the caller goes on
\* (line 75 to the body of _request or of the handler, line 130 to the resend)
AuthRecvOK(p) ==
    /\ pc[p] = "auth_recv"
    /\ ~AuthRaises(resp[p])
    /\ session_id' = ParseCookie(resp[p].header)
    /\ session_expires' = SessionExpiry(now)
    /\ nextToken' = nextToken + 1
    /\ call' = [call EXCEPT ![p].reauth = IF ret[p] = "retry" THEN "ok" ELSE @]
    /\ resp' = [resp EXCEPT ![p] = NoResp]
    /\ pc' = [pc EXCEPT ![p] = CASE ret[p] = "wrapper" -> "req_send"
                                  [] ret[p] = "handler" -> "h_body"
                                  [] OTHER -> "req_resend"]
    /\ UNCHANGED <<now, cacheVars, total, started, op, result, ret, attempt,
                   cookie, loaderVars, load, pair>>
    /\ rejected' = FALSE
    /\ UNCHANGED <<modeVars, handlerVars>>

(* ---- _request (lines 112-133) ----------------------------------------- *)
\* re-authenticate and resend on every 401
ShouldRetryAlways(a, status) == status = 401

\* line 126, reached once, after the send of line 125
ShouldRetry(a, status) == a = 1 /\ status = 401

\* raise_for_status that lets the 4xx statuses through
RaisesOnServerErrorOnly(status) == status >= 500 /\ status < 600

\* line 132
RequestRaises(status) == RaiseForStatus(status)

\* answers to a substantive request: no answer (requests raises), or a status
\* with the JSON body of the page asked for
ReqResponses(p) ==
    { [NoResp EXCEPT !.exc = TRUE] } \cup
    { [NoResp EXCEPT !.status = st,
                     !.body = IF op[p] = "request" \/ st # 200 THEN NoResp.body
                              ELSE Body(KindOf(op[p]), page[p])] :
        st \in ReqStatuses } \cup
    { [NoResp EXCEPT !.status = 200, !.body = b] :
        b \in IF honest \/ op[p] = "request" THEN {} ELSE MalformedBodies(page[p]) }

\* the response of lines 125/131 is returned by line 133
Returned(p) ==
    /\ ~resp[p].exc
    /\ ~ShouldRetry(attempt[p], resp[p].status)
    /\ ~RequestRaises(resp[p].status)

\* whether the stored token has been answered 401, with the answer taken
RejectedAnswered(p) ==
    rejected \/ (~resp[p].exc /\ resp[p].status = 401 /\ cookie[p] = session_id)

\* the history of the _request with the answer taken
CallAnswered(p, outcome) ==
    [call EXCEPT ![p].first = IF attempt[p] = 1 THEN resp[p].status ELSE @,
                 ![p].last = resp[p].status,
                 ![p].outcome = outcome]

\* lines 114-125: the headers carry the stored token; the request is sent
ReqSend(p) ==
    /\ pc[p] = "req_send"
    /\ cookie' = [cookie EXCEPT ![p] = session_id]
    /\ attempt' = [attempt EXCEPT ![p] = 1]
    /\ call' = [call EXCEPT ![p].sends = @ + 1, ![p].authsAtSend = call[p].auths]
    /\ pc' = [pc EXCEPT ![p] = "req_wait"]
    /\ UNCHANGED <<now, sessVars, cacheVars, envVars, started, op, result, ret,
                   resp, loaderVars, load, pair>>
    /\ UNCHANGED <<modeVars, rejected, handlerVars>>

\* the upstream answers the request (or the request times out)
ReqAnswer(p) ==
    /\ pc[p] = "req_wait"
    /\ \E r \in ReqResponses(p) : resp' = [resp EXCEPT ![p] = r]
    /\ pc' = [pc EXCEPT ![p] = "req_recv"]
    /\ UNCHANGED <<now, sessVars, cacheVars, envVars, started, op, result, ret,
                   attempt, cookie, loaderVars, call, load, pair>>
    /\ UNCHANGED <<modeVars, rejected, handlerVars>>

\* lines 126-129: the answer to the first send is 401
ReqRecvRetry(p) ==
    /\ pc[p] = "req_recv"
    /\ ~resp[p].exc
    /\ ShouldRetry(attempt[p], resp[p].status)
    /\ call' = CallAnswered(p, "running")
    /\ resp' = [resp EXCEPT ![p] = NoResp]
    /\ pc' = [pc EXCEPT ![p] = "auth_send"]
    /\ ret' = [ret EXCEPT ![p] = "retry"]
    /\ rejected' = RejectedAnswered(p)
    /\ UNCHANGED <<now, sessVars, cacheVars, envVars, started, op, result,
                   attempt, cookie, loaderVars, load, pair>>
    /\ UNCHANGED <<modeVars, handlerVars>>

\* line 131 without line 130: the request is sent again with the headers of
\* the first send
ReqResendStale(p) ==
    /\ pc[p] = "req_resend"
    /\ attempt' = [attempt EXCEPT ![p] = @ + 1]
    /\ call' = [call EXCEPT ![p].sends = @ + 1]
    /\ pc' = [pc EXCEPT ![p] = "req_wait"]
    /\ UNCHANGED <<now, sessVars, cacheVars, envVars, started, op, result, ret,
                   cookie, resp, loaderVars, load, pair>>
    /\ UNCHANGED <<modeVars, rejected, handlerVars>>

\* lines 130-131: the Cookie header is set to the stored token; the same
\* request is sent again
ReqResend(p) ==
    /\ pc[p] = "req_resend"
    /\ cookie' = [cookie EXCEPT ![p] = session_id]
    /\ attempt' = [attempt EXCEPT ![p] = @ + 1]
    /\ call' = [call EXCEPT ![p].sends = @ + 1]
    /\ pc' = [pc EXCEPT ![p] = "req_wait"]
    /\ UNCHANGED <<now, sessVars, cacheVars, envVars, started, op, result, ret,
                   resp, loaderVars, load, pair>>
    /\ UNCHANGED <<modeVars, rejected, handlerVars>>

\* lines 125/131 raise (no answer), or line 132 raises on the final status
ReqRecvRaise(p) ==
    /\ pc[p] = "req_recv"
    /\ \/ resp[p].exc
       \/ ~ShouldRetry(attempt[p], resp[p].status) /\ RequestRaises(resp[p].status)
    /\ call' = CallAnswered(p, "raised")
    /\ rejected' = RejectedAnswered(p)
    /\ Propagates(p)
    /\ UNCHANGED <<now, sessVars, envVars, started, op>>
    /\ UNCHANGED modeVars

\* line 133, called directly: the response goes to the caller
ReqRecvReturn(p) ==
    /\ pc[p] = "req_recv"
    /\ op[p] = "request"
    /\ Returned(p)
    /\ call' = CallAnswered(p, "returned")
    /\ Ends(p, "ok")
    /\ UNCHANGED <<now, sessVars, cacheVars, envVars, started, op, load, pair>>
    /\ UNCHANGED <<modeVars, rejected>>

(* ---- _load_paginated (lines 140-155) ---------------------------------- *)
\* a missing total_entries taken for a page of entries still to come
GetTotalDefaultsToPage(data) ==
    IF data.total_entries = None THEN page_size ELSE data.total_entries

\* line 152: data.get("total_entries", 0)
GetTotal(data) == IF data.total_entries = None THEN 0 ELSE data.total_entries

\* stop only when the output is longer than the reported total
LoadDoneStrict(out, total_entries) == Len(out) > total_entries

\* line 152
LoadDone(out, total_entries) == Len(out) >= total_entries

\* lines 133, 149-154: the page arrived, the loop goes on with the next page
LoadNextPage(p) ==
    /\ pc[p] = "req_recv"
    /\ op[p] # "request"
    /\ Returned(p)
    /\ call' = CallAnswered(p, "returned")
    /\ LET data == resp[p].body
           out == output[p] \o data.page_entries
       IN  /\ ~LoadDone(out, GetTotal(data))
           /\ output' = [output EXCEPT ![p] = out]
    /\ page[p] < MaxPages
    /\ page' = [page EXCEPT ![p] = @ + 1]
    /\ resp' = [resp EXCEPT ![p] = NoResp]
    /\ pc' = [pc EXCEPT ![p] = "req_check"]
    /\ load' = [load EXCEPT ![p].first = IF page[p] = 1 THEN resp[p].body ELSE @]
    /\ UNCHANGED <<now, sessVars, cacheVars, envVars, started, op, result, ret,
                   attempt, cookie, pair>>
    /\ UNCHANGED <<modeVars, rejected, handlerVars>>

\* lines 133, 149-153, 155 and 161 / 168: the last page arrived, the output
\* is returned and the cache is extended with it
LoadFinish(p) ==
    /\ pc[p] = "req_recv"
    /\ op[p] # "request"
    /\ Returned(p)
    /\ call' = CallAnswered(p, "returned")
    /\ LET k == KindOf(op[p])
           data == resp[p].body
           out == output[p] \o data.page_entries
       IN  /\ LoadDone(out, GetTotal(data))
           /\ customers_cache' = IF k = "customers" THEN customers_cache \o out
                                 ELSE customers_cache
           /\ products_cache' = IF k = "products" THEN products_cache \o out
                                ELSE products_cache
           /\ pair' = [pair EXCEPT ![k] = PairAfterReturn(k, TRUE, CacheOf(k) \o out)]
           /\ load' = [load EXCEPT ![p].outcome = "returned", ![p].returned = out,
                                   ![p].first = IF page[p] = 1 THEN data ELSE @]
    /\ Ends(p, "ok")
    /\ UNCHANGED <<now, sessVars, envVars, started, op>>
    /\ UNCHANGED <<modeVars, rejected>>

(* ---- the specification ------------------------------------------------ *)
Next ==
    \/ Tick
    \/ \E p \in Workers, o \in Ops : Start(p, o)
    \/ \E p \in Workers : EnsureSkip(p)
    \/ \E p \in Workers : EnsureLoad(p)
    \/ \E p \in Workers : SessionCheck(p)
    \/ \E p \in Workers : AuthSend(p)
    \/ \E p \in Workers : LoginAnswer(p)
    \/ \E p \in Workers : AuthRecvFail(p)
    \/ \E p \in Workers : AuthRecvOK(p)
    \/ \E p \in Workers : ReqSend(p)
    \/ \E p \in Workers : ReqAnswer(p)
    \/ \E p \in Workers : ReqRecvRetry(p)
    \/ \E p \in Workers : ReqResend(p)
    \/ \E p \in Workers : ReqRecvRaise(p)
    \/ \E p \in Workers : ReqRecvReturn(p)
    \/ \E p \in Workers : LoadNextPage(p)
    \/ \E p \in Workers : LoadFinish(p)

Spec == Init /\ [][Next]_vars

\* the steps of the first operation of a process: its caches are empty, and
\* the time is too short for the clock to matter
NextMalformed ==
    \/ \E p \in Workers, o \in Ops : Start(p, o)
    \/ \E p \in Workers : EnsureLoad(p)
    \/ \E p \in Workers : SessionCheck(p)
    \/ \E p \in Workers : AuthSend(p)
    \/ \E p \in Workers : LoginAnswer(p)
    \/ \E p \in Workers : AuthRecvFail(p)
    \/ \E p \in Workers : AuthRecvOK(p)
    \/ \E p \in Workers : ReqSend(p)
    \/ \E p \in Workers : ReqAnswer(p)
    \/ \E p \in Workers : ReqRecvRetry(p)
    \/ \E p \in Workers : ReqResend(p)
    \/ \E p \in Workers : ReqRecvRaise(p)
    \/ \E p \in Workers : ReqRecvReturn(p)
    \/ \E p \in Workers : LoadNextPage(p)
    \/ \E p \in Workers : LoadFinish(p)

\* one operation of the program against an upstream whose list pages are
\* malformed
SpecMalformed == InitMalformed /\ [][NextMalformed]_vars

\* the workers call _ensure_customers_loaded at the same time (a threaded
\* server) against a customers list of two pages, in a time too short for
\* the session to expire
InitConcurrent ==
    /\ InitProgram
    /\ now = MaxTime
    /\ started = 0
    /\ honest = TRUE
    /\ concurrent = TRUE
    /\ total["customers"] = page_size + 1

NextConcurrent ==
    \/ \E p \in Workers : Start(p, "ensure_customers")
    \/ \E p \in Workers : EnsureSkip(p)
    \/ \E p \in Workers : EnsureLoad(p)
    \/ \E p \in Workers : SessionCheck(p)
    \/ \E p \in Workers : AuthSend(p)
    \/ \E p \in Workers : LoginAnswer(p)
    \/ \E p \in Workers : AuthRecvFail(p)
    \/ \E p \in Workers : AuthRecvOK(p)
    \/ \E p \in Workers : ReqSend(p)
    \/ \E p \in Workers : ReqAnswer(p)
    \/ \E p \in Workers : ReqRecvRetry(p)
    \/ \E p \in Workers : ReqResend(p)
    \/ \E p \in Workers : ReqRecvRaise(p)
    \/ \E p \in Workers : LoadNextPage(p)
    \/ \E p \in Workers : LoadFinish(p)

SpecConcurrent == InitConcurrent /\ [][NextConcurrent]_vars

(* ---- the route handlers (lines 181-267) ------------------------------- *)
\* a request for route h arrives (q: its body has a non-empty question, read
\* by chat_mcp only); the requests are served one after the other
StartHandler(p, h, q) ==
    /\ \A w \in Workers : pc[w] = "idle" /\ p <= w
    /\ started < MaxOps
    /\ h = "chat_mcp" \/ ~q
    /\ started' = started + 1
    /\ handler' = [w \in Workers |->
                       IF w = p THEN [NoHandler EXCEPT !.name = h, !.question = q]
                       ELSE NoHandler]
    /\ reply' = [w \in Workers |-> NoReply]
    /\ op' = [w \in Workers |-> "none"]
    /\ result' = [w \in Workers |-> "none"]
    /\ call' = [w \in Workers |-> NoCall]
    /\ load' = [w \in Workers |-> NoLoad]
    /\ pc' = [pc EXCEPT ![p] = "h_check"]
    /\ UNCHANGED <<now, sessVars, cacheVars, envVars, reqVars, loaderVars, pair,
                   modeVars, rejected>>

\* session_required around the handler (lines 72-75): the body next when the
\* session is valid, _authenticate first when it is not
HandlerSessionCheck(p) ==
    /\ pc[p] = "h_check"
    /\ IF IsSessionValid
       THEN /\ pc' = [pc EXCEPT ![p] = "h_body"]
            /\ ret' = ret
       ELSE /\ pc' = [pc EXCEPT ![p] = "auth_send"]
            /\ ret' = [ret EXCEPT ![p] = "handler"]
    /\ UNCHANGED <<now, sessVars, cacheVars, envVars, started, op, result,
                   attempt, cookie, resp, loaderVars, call, load, pair,
                   modeVars, rejected, handlerVars>>

\* the call the body of handler name makes after `phase` calls have returned
\* (lines 184-185, 204, 228 and 240), "none" when it makes no more
NextCall(name, phase) ==
    CASE name = "auth" /\ phase = 0 -> "ensure_customers"
      [] name = "auth" /\ phase = 1 -> "ensure_products"
      [] name = "get_customers" /\ phase = 0 -> "ensure_customers"
      [] name = "analytics_dashboard" /\ phase = 0 -> "ensure_customers"
      [] name = "analytics_dashboard" /\ phase = 1 -> "request"
      [] OTHER -> "none"

\* the body of the handler calls an ensure-loaded function or _request
HandlerCalls(p) ==
    /\ pc[p] = "h_body"
    /\ NextCall(handler[p].name, handler[p].phase) # "none"
    /\ op' = [op EXCEPT ![p] = NextCall(handler[p].name, handler[p].phase)]
    /\ result' = [result EXCEPT ![p] = "none"]
    /\ call' = [call EXCEPT ![p] = NoCall]
    /\ load' = [load EXCEPT ![p] = NoLoad]
    /\ pc' = [pc EXCEPT ![p] = IF op'[p] = "request" THEN "req_check" ELSE "ensure"]
    /\ UNCHANGED <<now, sessVars, cacheVars, envVars, started, reqVars,
                   loaderVars, pair, modeVars, rejected, handlerVars>>

\* the handler of worker p returns a response with this status
Replies(p, r) ==
    /\ reply' = [reply EXCEPT ![p] = r]
    /\ pc' = [pc EXCEPT ![p] = "idle"]
    /\ UNCHANGED <<now, sessVars, cacheVars, envVars, started, op, result,
                   reqVars, loaderVars, call, load, pair, modeVars, rejected>>

\* lines 186-193 and 242-256: auth and analytics_dashboard answer 200
PlainReplies(p) ==
    /\ pc[p] = "h_body"
    /\ handler[p].name \in {"auth", "analytics_dashboard"}
    /\ NextCall(handler[p].name, handler[p].phase) = "none"
    /\ Replies(p, [NoReply EXCEPT !.status = 200])
    /\ UNCHANGED handler

\* line 265: `if not question`
ChatRejectsEmpty(q) == ~q

\* lines 262-267: chat_mcp answers 400 to an empty question, 200 otherwise
ChatReplies(p) ==
    /\ pc[p] = "h_body"
    /\ handler[p].name = "chat_mcp"
    /\ Replies(p, [NoReply EXCEPT !.status =
                       IF ChatRejectsEmpty(handler[p].question) THEN 400 ELSE 200])
    /\ UNCHANGED handler

\* rows[start:end] of Python for 0 <= start <= end
PySlice(rows, start, end) ==
    IF start >= Min(end, Len(rows)) THEN << >>
    ELSE SubSeq(rows, start + 1, Min(end, Len(rows)))

\* the page count rounded down
PageCountFloor(n, per_page) == n \div per_page

\* line 219: (total + per_page - 1) // per_page
PageCount(n, per_page) == (n + per_page - 1) \div per_page

\* lines 200-222 without a search: the page of the cache that was asked for.
\* The arguments are read on lines 200-201; nothing uses them before line
\* 211, where the model draws them
GetCustomersReplies(p) ==
    /\ pc[p] = "h_body"
    /\ handler[p].name = "get_customers"
    /\ NextCall(handler[p].name, handler[p].phase) = "none"
    /\ \E pg \in 1..MaxPage, per \in 1..MaxPerPage :
          /\ handler' = [handler EXCEPT ![p].page = pg, ![p].per_page = per]
          /\ Replies(p, [status |-> 200,
                         customers |-> PySlice(customers_cache, (pg - 1) * per, pg * per),
                         total |-> Len(customers_cache),
                         pages |-> PageCount(Len(customers_cache), per)])

\* lines 206-208 with a search: json is used and never imported, so the
\* filter raises NameError on the first row; with no rows it is not evaluated
\* and the (empty) page is returned
GetCustomersSearches(p) ==
    /\ pc[p] = "h_body"
    /\ handler[p].name = "get_customers"
    /\ NextCall(handler[p].name, handler[p].phase) = "none"
    /\ \E pg \in 1..MaxPage, per \in 1..MaxPerPage :
          /\ handler' = [handler EXCEPT ![p].page = pg, ![p].per_page = per,
                                        ![p].search = TRUE]
          /\ Replies(p, IF customers_cache # << >>
                        THEN [NoReply EXCEPT !.status = 500]
                        ELSE [NoReply EXCEPT !.status = 200])

\* a fresh process serving requests one after the other
InitHandlers ==
    /\ InitProgram
    /\ now = 0
    /\ started = 0
    /\ honest = TRUE
    /\ concurrent = FALSE

NextHandlers ==
    \/ Tick
    \/ \E p \in Workers, h \in Handlers, q \in BOOLEAN : StartHandler(p, h, q)
    \/ \E p \in Workers : HandlerSessionCheck(p)
    \/ \E p \in Workers : HandlerCalls(p)
    \/ \E p \in Workers : PlainReplies(p)
    \/ \E p \in Workers : ChatReplies(p)
    \/ \E p \in Workers : GetCustomersReplies(p)
    \/ \E p \in Workers : GetCustomersSearches(p)
    \/ \E p \in Workers : EnsureSkip(p)
    \/ \E p \in Workers : EnsureLoad(p)
    \/ \E p \in Workers : SessionCheck(p)
    \/ \E p \in Workers : AuthSend(p)
    \/ \E p \in Workers : LoginAnswer(p)
    \/ \E p \in Workers : AuthRecvFail(p)
    \/ \E p \in Workers : AuthRecvOK(p)
    \/ \E p \in Workers : ReqSend(p)
    \/ \E p \in Workers : ReqAnswer(p)
    \/ \E p \in Workers : ReqRecvRetry(p)
    \/ \E p \in Workers : ReqResend(p)
    \/ \E p \in Workers : ReqRecvRaise(p)
    \/ \E p \in Workers : ReqRecvReturn(p)
    \/ \E p \in Workers : LoadNextPage(p)
    \/ \E p \in Workers : LoadFinish(p)

SpecHandlers == InitHandlers /\ [][NextHandlers]_vars

TypeOK ==
    /\ now \in 0..MaxTime
    /\ session_id \in {None} \cup Nat
    /\ session_expires \in {None} \cup Nat
    /\ pc \in [Workers -> {"idle", "ensure", "req_check", "auth_send", "auth_wait",
                           "auth_recv", "req_send", "req_wait", "req_recv",
                           "req_resend", "h_check", "h_body"}]

(* ======================================================================= *)
(* Properties                                                              *)
(* ======================================================================= *)
\* the _request of worker p has ended
Ended(p) == call[p].outcome \in {"returned", "raised"}

\* authentication calls of the _request of worker p made after its first send
ReAuths(p) == call[p].auths - call[p].authsAtSend

\* the catalogue size the operation of worker p loads
TotalOf(p) == total[KindOf(op[p])]

(* ---- C1 --------------------------------------------------------------- *)
\* C1, as claimed: every _request whose first response is 401 performs
\* exactly one re-authentication and exactly one resend, and a resend that is
\* answered with a failure ends the call in an error
C1_AlwaysOneResend ==
    \A p \in Workers :
        (Ended(p) /\ call[p].first = 401) =>
            /\ ReAuths(p) = 1
            /\ call[p].sends = 2
            /\ (call[p].last >= 400 => call[p].outcome = "raised")

\* C1, amended: a _request whose first response is 401 attempts exactly one
\* re-authentication; it resends exactly once when that re-authentication
\* succeeds and not at all when it fails; a resend that is answered with a
\* failure status (or not at all) ends the call in an error; there is never
\* a third send
C1_SingleRetry ==
    \A p \in Workers :
        /\ call[p].sends <= 2
        /\ (call[p].sends = 2 => call[p].first = 401 /\ call[p].reauth = "ok")
        /\ (call[p].first = 401 =>
                /\ ReAuths(p) <= 1
                /\ (Ended(p) =>
                       /\ ReAuths(p) = 1
                       /\ call[p].reauth \in {"ok", "failed"}
                       /\ call[p].sends = (IF call[p].reauth = "ok" THEN 2 ELSE 1)
                       /\ (call[p].reauth = "failed" => call[p].outcome = "raised")
                       /\ (call[p].last = 0 \/ call[p].last >= 400
                              => call[p].outcome = "raised")))

\* C1: the resend was answered 401 again and the call ended in an error
C1_Witness ==
    \E p \in Workers :
        /\ Ended(p) /\ call[p].first = 401 /\ call[p].reauth = "ok"
        /\ call[p].sends = 2 /\ call[p].last = 401 /\ call[p].outcome = "raised"

(* ---- C2 --------------------------------------------------------------- *)
\* C2, as claimed: a _request whose session check finds the session absent
\* or expired performs exactly one authentication call, before its send
C2_ExactlyOneAuth ==
    \A p \in Workers :
        (Ended(p) /\ call[p].invalid) =>
            /\ call[p].auths = 1
            /\ call[p].authsAtSend \in {None, 1}

\* C2, amended: a _request whose session check finds the session absent or
\* expired performs exactly one authentication call before its first send;
\* it performs a second one if and only if that send is answered 401
C2_OneAuthBeforeSend ==
    \A p \in Workers :
        call[p].invalid =>
            /\ (call[p].sends >= 1 => call[p].authsAtSend = 1)
            /\ (Ended(p) => call[p].auths = (IF call[p].first = 401 THEN 2 ELSE 1))

\* C2: the session was absent or expired, one login, one send, a response
C2_Witness ==
    \E p \in Workers :
        /\ call[p].invalid /\ call[p].outcome = "returned"
        /\ call[p].auths = 1 /\ call[p].sends = 1

(* ---- C3 --------------------------------------------------------------- *)
\* C3: a session check that finds a token with a future expiry goes straight
\* to the wrapped function: no login is sent, no request has been sent, and
\* the Session token and expiry are unchanged
C3_ValidSessionNoNetwork ==
    [][\A p \in Workers :
        (/\ pc[p] = "req_check" /\ pc'[p] # "req_check"
         /\ session_id # None /\ session_expires # None /\ session_expires > now)
        => /\ pc'[p] = "req_send"
           /\ call'[p].auths = 0 /\ call'[p].sends = 0
           /\ session_id' = session_id /\ session_expires' = session_expires]_vars

\* C3: the session check has just passed with a valid session
C3_Witness ==
    \E p \in Workers :
        /\ pc[p] = "req_send" /\ ~call[p].invalid /\ call[p].auths = 0
        /\ session_id # None /\ session_expires > now

(* ---- C4 --------------------------------------------------------------- *)
\* C4, as claimed: a _request with its session check makes at most 2 network
\* calls in total
C4_AtMostTwoCalls ==
    \A p \in Workers : call[p].auths + call[p].sends <= 2

\* C4, amended: a _request with its session check sends the request at most
\* twice, the second send only after a 401, and makes at most 2 login calls
\* (one by the session check of an absent or expired session, one after the
\* 401): at most 4 network calls, at most 3 when the session check passed
C4_AtMostFourCalls ==
    \A p \in Workers :
        /\ call[p].sends <= 2
        /\ (call[p].sends = 2 => call[p].first = 401)
        /\ call[p].auths <= 2
        /\ call[p].auths <= (IF call[p].invalid THEN 1 ELSE 0)
                            + (IF call[p].first = 401 THEN 1 ELSE 0)
        /\ call[p].auths + call[p].sends <= (IF call[p].invalid THEN 4 ELSE 3)

\* C4: an absent or expired session and a 401: 2 logins and 2 sends
C4_Witness ==
    \E p \in Workers : call[p].auths = 2 /\ call[p].sends = 2 /\ call[p].invalid

(* ---- C5 --------------------------------------------------------------- *)
\* C5, as claimed: a load of a list of T records makes exactly ceil(T/page_size)
\* page fetches, for pages 1, 2, 3, ..., and returns the T records in order
C5_CeilFetches ==
    \A p \in Workers :
        load[p].outcome = "returned" =>
            /\ Len(load[p].fetches) = CeilDiv(TotalOf(p), page_size)
            /\ \A i \in 1..Len(load[p].fetches) : load[p].fetches[i] = i
            /\ load[p].returned = Catalogue(TotalOf(p))

\* C5, amended: a load of a list of T records makes exactly
\* max(1, ceil(T/page_size)) page fetches (one fetch for an empty list), for
\* pages 1, 2, 3, ..., never more, and returns the T records in order
C5_AtLeastOneFetch ==
    \A p \in Workers :
        load[p].outcome # "none" =>
            /\ Len(load[p].fetches) <= Max(1, CeilDiv(TotalOf(p), page_size))
            /\ \A i \in 1..Len(load[p].fetches) : load[p].fetches[i] = i
            /\ (load[p].outcome = "returned" =>
                   /\ Len(load[p].fetches) = Max(1, CeilDiv(TotalOf(p), page_size))
                   /\ load[p].returned = Catalogue(TotalOf(p)))

\* C5: a load of three pages returned
C5_Witness ==
    \E p \in Workers :
        /\ load[p].outcome = "returned" /\ Len(load[p].fetches) = 3
        /\ Len(load[p].returned) > 2 * page_size

(* ---- C6 --------------------------------------------------------------- *)
\* C6, as claimed: two successful ensure-loaded calls in a row for one kind,
\* the first finding the cache empty, run exactly one paginated load, and
\* the cache is the same after both
C6_OneLoadForTwoCalls ==
    \A k \in Kinds :
        pair[k].n = 2 => pair[k].loads = 1 /\ pair[k].first = pair[k].second

(* ---- C7 --------------------------------------------------------------- *)
\* C7, as claimed: in every state the Session token is absent or paired with
\* an expiry that lies in the future
C7_TokenAbsentOrFresh ==
    session_id = None \/ (session_expires # None /\ session_expires > now)

\* C7, amended: in every state the Session token and expiry are both absent
\* or both present; an expiry lies in the future (now + TTL) when it is
\* stored and is stored only together with a token; nothing clears or
\* changes the pair when time passes, so a token may stay with a past expiry
C7_TokenPairedWithExpiry ==
    /\ [](session_id = None <=> session_expires = None)
    /\ [][(session_id' # session_id \/ session_expires' # session_expires)
            => /\ session_id' # None
               /\ session_expires' = now' + CACHE_TTL
               /\ session_expires' > now']_vars
    /\ [][now' # now => session_id' = session_id /\ session_expires' = session_expires]_vars

\* C7: a token is stored and its expiry has passed
C7_Witness == session_id # None /\ session_expires # None /\ session_expires <= now

(* ---- C8 --------------------------------------------------------------- *)
\* C8: each cache is empty or holds every record of the upstream list in
\* order; after a load that returned, the cache is what the load returned;
\* after an ensure-loaded call that raised, on whichever page, the cache is
\* empty
C8_CacheEmptyOrComplete ==
    /\ \A k \in Kinds : CacheOf(k) = << >> \/ CacheOf(k) = Catalogue(total[k])
    /\ \A p \in Workers :
        /\ load[p].outcome = "returned" => CacheOf(KindOf(op[p])) = load[p].returned
        /\ (op[p] \in {"ensure_customers", "ensure_products"} /\ result[p] = "error")
              => CacheOf(KindOf(op[p])) = << >>

\* C8: a load raised on its second or third page and the cache is empty
C8_Witness ==
    \E p \in Workers :
        /\ load[p].outcome = "raised" /\ Len(load[p].fetches) >= 2
        /\ result[p] = "error" /\ CacheOf(KindOf(op[p])) = << >>

(* ---- C9 --------------------------------------------------------------- *)
\* C9: a _request returns a response only when its final status is below
\* 400; a final failure status, or no answer, ends it in an error; and an
\* error of a page fetch ends _load_paginated and the ensure-loaded call in
\* an error with nothing returned and nothing stored
C9_FailuresPropagate ==
    \A p \in Workers :
        /\ call[p].outcome = "returned" => call[p].last > 0 /\ call[p].last < 400
        /\ (Ended(p) /\ (call[p].last = 0 \/ call[p].last >= 400))
              => call[p].outcome = "raised" /\ result[p] = "error"
        /\ (call[p].outcome = "raised" /\ load[p].outcome # "none")
              => /\ load[p].outcome = "raised"
                 /\ load[p].returned = << >>
                 /\ result[p] = "error"
                 /\ CacheOf(KindOf(op[p])) = << >>

\* C9: the resend of a later page fetch was answered with a failure status and
\* the load ended in an error
C9_Witness ==
    \E p \in Workers :
        /\ call[p].outcome = "raised" /\ call[p].sends = 2 /\ call[p].last = 500
        /\ load[p].outcome = "raised" /\ Len(load[p].fetches) >= 2
        /\ result[p] = "error"

(* ---- C10 -------------------------------------------------------------- *)
\* the answer r carries a JSESSIONID token
CarriesToken(r) ==
    \E i \in 1..Len(r.header) :
        r.header[i].name \in {"JSESSIONID", "JSESSIONIDSSO"} /\ r.header[i].eq

\* C10: when the login call raises, answers a failure status, or carries no
\* JSESSIONID token, _authenticate ends in an error and the Session token and
\* expiry stay as they were; otherwise the Session becomes a token of the
\* answer with the expiry now + TTL
C10_AuthFailureKeepsSession ==
    [][\A p \in Workers :
        (pc[p] = "auth_recv" /\ pc'[p] # "auth_recv") =>
            IF resp[p].exc \/ resp[p].status >= 400 \/ ~CarriesToken(resp[p])
            THEN /\ result'[p] = "error"
                 /\ call'[p].outcome = "raised"
                 /\ session_id' = session_id
                 /\ session_expires' = session_expires
            ELSE /\ \E i \in 1..Len(resp[p].header) :
                        /\ resp[p].header[i].name \in {"JSESSIONID", "JSESSIONIDSSO"}
                        /\ resp[p].header[i].eq
                        /\ session_id' = resp[p].header[i].val
                 /\ session_expires' = now + CACHE_TTL
                 /\ result'[p] = "none"]_vars

\* C10: a login failed while a token was stored, and the token is still there
C10_Witness ==
    \E p \in Workers :
        /\ call[p].outcome = "raised" /\ call[p].auths = 1 /\ call[p].sends = 0
        /\ session_id # None

(* ---- C11 -------------------------------------------------------------- *)
\* C11, as claimed: _load_paginated ends its loop on a page whose
\* page_entries is empty, whatever total_entries the page reports: after
\* such a page no further page is requested
C11_EmptyPageEndsLoop ==
    [][\A p \in Workers :
          (/\ pc[p] = "req_recv" /\ op[p] # "request" /\ Returned(p)
           /\ resp[p].body.page_entries = << >>)
              => pc'[p] # "req_check"]_vars

(* ---- C12 -------------------------------------------------------------- *)
\* C12: when the first page reports total_entries = 0 or has no
\* total_entries, _load_paginated fetches page 1 only and returns the
\* page_entries of that page, whatever they are
C12_ZeroTotalOneFetch ==
    \A p \in Workers :
        load[p].first.total_entries \in {None, 0} =>
            /\ Len(load[p].fetches) <= 1
            /\ load[p].outcome = "returned" =>
                   /\ load[p].fetches = <<1>>
                   /\ load[p].returned = load[p].first.page_entries

\* C12: a load returned the entries of a first page that had no total_entries
C12_Witness ==
    \E p \in Workers :
        /\ load[p].outcome = "returned" /\ load[p].fetches = <<1>>
        /\ load[p].first.total_entries = None
        /\ Len(load[p].returned) = page_size

(* ---- C16 -------------------------------------------------------------- *)
\* C16, as claimed: once the upstream has answered 401 to the stored token,
\* no request carrying that token is sent again: a request in flight never
\* carries a stored token that was answered 401
C16_RejectedTokenNotSent ==
    \A p \in Workers :
        (pc[p] = "req_wait" /\ cookie[p] = session_id) => ~rejected

(* ---- C19 -------------------------------------------------------------- *)
\* C19: the resend after a 401 follows a successful re-authentication,
\* carries the token stored now and not the token of the first send, and is
\* the same request (same operation, same page)
C19_ResendCarriesNewToken ==
    [][\A p \in Workers :
          (pc[p] = "req_resend" /\ pc'[p] = "req_wait") =>
              /\ call[p].reauth = "ok"
              /\ cookie'[p] = session_id
              /\ cookie'[p] # cookie[p]
              /\ op'[p] = op[p] /\ page'[p] = page[p]]_vars

\* C19: a request answered 401 is in flight again with the new token
C19_Witness ==
    \E p \in Workers :
        /\ pc[p] = "req_wait" /\ attempt[p] = 2 /\ call[p].first = 401
        /\ cookie[p] = session_id /\ ~rejected

(* ---- C13 -------------------------------------------------------------- *)
\* the workers whose _load_paginated for kind k is running
Loading(k) ==
    {p \in Workers : load[p].outcome = "running" /\ KindOf(op[p]) = k}

\* C13, as claimed: at any time at most one paginated load per kind is
\* running, whatever the interleaving of the workers
C13_OneLoadInFlight == \A k \in Kinds : Cardinality(Loading(k)) <= 1

(* ---- C14 -------------------------------------------------------------- *)
\* the workers whose login request is sent and not yet answered
Authenticating == {p \in Workers : pc[p] = "auth_wait"}

\* C14, as claimed: at any time at most one authentication request is in
\* flight, whatever the interleaving of the workers
C14_OneAuthInFlight == Cardinality(Authenticating) <= 1

(* ---- C20 -------------------------------------------------------------- *)
\* C20, as claimed: the customers cache never holds more entries than the
\* upstream holds customers, and holds no record twice
C20_CacheWithinTotal ==
    /\ Len(customers_cache) <= total["customers"]
    /\ \A i, j \in 1..Len(customers_cache) :
           customers_cache[i] = customers_cache[j] => i = j

(* ---- C15 -------------------------------------------------------------- *)
\* a paginated load for kind k starts in this step
LoadStarts(k) ==
    \E p \in Workers :
        /\ load[p].outcome # "running" /\ load'[p].outcome = "running"
        /\ KindOf(op'[p]) = k

\* C15: once the cache of a kind is non-empty, no step of any handler, no
\* tick of the clock and no authentication changes its content, and no
\* paginated load for that kind starts (requests served one after the other)
C15_FilledCacheStays ==
    [][\A k \in Kinds :
          CacheOf(k) # << >> => (CacheOf(k))' = CacheOf(k) /\ ~LoadStarts(k)]_vars

\* C15: with the customers cache filled, a later GET /api/customers was
\* served from it after the session had expired and a new login was made,
\* with no load
C15_Witness ==
    \E p \in Workers :
        /\ handler[p].name = "get_customers" /\ reply[p].status = 200
        /\ started = MaxOps
        /\ customers_cache # << >> /\ load[p].outcome = "none"
        /\ session_id # None /\ session_id > 1

(* ---- C17 -------------------------------------------------------------- *)
\* C17, as claimed: every POST /api/chat/mcp with an empty or missing
\* question is answered 400, whatever the session and the upstream
C17_EmptyQuestion400 ==
    \A p \in Workers :
        (handler[p].name = "chat_mcp" /\ ~handler[p].question /\ pc[p] = "idle")
            => reply[p].status = 400

(* ---- C18 -------------------------------------------------------------- *)
\* C18: a GET /api/customers without search answered from a cache of N
\* entries holds the cache entries at the 0-based indices from
\* (page-1)*per_page up to, not including, min(page*per_page, N), in cache
\* order, with total = N and pages = ceil(N / per_page)
C18_PageOfCache ==
    \A p \in Workers :
        (handler[p].name = "get_customers" /\ ~handler[p].search
         /\ reply[p].status = 200) =>
            LET N == Len(customers_cache)
                first == (handler[p].page - 1) * handler[p].per_page
                last == Min(handler[p].page * handler[p].per_page, N)
            IN  /\ Len(reply[p].customers) = Max(0, last - first)
                /\ \A i \in 1..Len(reply[p].customers) :
                       reply[p].customers[i] = customers_cache[first + i]
                /\ reply[p].total = N
                /\ reply[p].pages * handler[p].per_page >= N
                /\ (reply[p].pages - 1) * handler[p].per_page < N
                /\ (N = 0 => reply[p].pages = 0)

\* C18: the example of the claim scaled down: page 2 with 2 per page of a
\* cache of 5 entries gives the entries at [2:4) and 3 pages
C18_Witness ==
    \E p \in Workers :
        /\ handler[p].name = "get_customers" /\ ~handler[p].search
        /\ handler[p].page = 2 /\ handler[p].per_page = 2
        /\ Len(customers_cache) = 5
        /\ reply[p].status = 200
        /\ reply[p].customers = <<customers_cache[3], customers_cache[4]>>
        /\ reply[p].pages = 3 /\ reply[p].total = 5

====
